---- MODULE Spec2Model ----
(***************************************************************************)
(* TRI_FLAG triage core: TriageAgent.run (agent/triage_agent.py) driving   *)
(* an AgentState (agent/agent_state.py) through the tool loop and the      *)
(* PolicyEngine (policies/policy_engine.py).                               *)
(*                                                                         *)
(* Tools and policies are external collaborators: a tool invocation is a   *)
(* nondeterministic choice over what a tool can do (return a value, raise  *)
(* the agent's ToolExecutionError, raise anything else, call terminate()   *)
(* on the state it was handed); a policy is one of a few deterministic     *)
(* behaviours.  Tools are taken not to call the state's other mutators     *)
(* (add_tool_result, add_message, set_decision).  Wall-clock values        *)
(* (execution_time_ms, timestamps) and logging are not modelled: no branch *)
(* of run() depends on them.                                               *)
(***************************************************************************)
EXTENDS Integers, Sequences, FiniteSets, TLC

VARIABLES
    pc,            \* position of the caller / of run()
    tools,         \* TriageAgent.tools: the configured tool list
    engine,        \* the injected policy_engine object
    state,         \* the AgentState of the run (NoRecord before run() creates it)
    idx,           \* 1-based position of the `for tool in self.tools` loop
    decisionLocal, \* the local variable `decision` of run()
    exc,           \* the exception that escaped (NoExc while none has)
    invoked,       \* history: names of the tools whose run() was called, in call order
    outcomes,      \* history: how each finished invocation ended, in order
    engineCalls,   \* history: number of policy_engine.evaluate calls made by run()
    engineResult,  \* history: what the policy_engine.evaluate call did (NoCall before it)
    cleared,       \* history: clear_policies() was called and no add_policy() since
    call,          \* the Decision call under examination: its arguments, then its result
    runs,          \* per run() call in flight on one agent: its position and its record
    heap           \* the dict and list objects the records of `runs` refer to

\* The variables of one run() call and its caller.
runVars == <<pc, tools, engine, state, idx, decisionLocal, exc, invoked, outcomes,
             engineCalls, engineResult>>

\* The variables used only by the specifications of the engine on its own,
\* of Decision, and of several runs on one agent.
otherVars == <<cleared, call, runs, heap>>

vars == <<pc, tools, engine, state, idx, decisionLocal, exc, invoked, outcomes,
          engineCalls, engineResult, cleared, call, runs, heap>>

----------------------------------------------------------------------------
(* Bounds *)

MaxTools == 2
MaxPolicies == 2
MaxRuns == 2
MaxRationaleLen == 2

----------------------------------------------------------------------------
(* Enumerations of the source *)

SUCCESS == "success"
FAILURE == "failure"

NON_TERMINAL == "non_terminal"
TERMINAL == "terminal"
ToolFailureMode == {NON_TERMINAL, TERMINAL}

PASS == "pass"
FLAG == "flag"
DISCARD == "discard"
DecisionType == {PASS, FLAG, DISCARD}

GateName == "ValidityTool"
ToolNames == {GateName, "A", "B"}

\* A configured tool as the agent sees it: get_name() and get_failure_mode().
ToolConfigs == [name : ToolNames, mode : ToolFailureMode]

RECURSIVE SeqsUpTo(_, _)
SeqsUpTo(S, n) ==
    IF n = 0 THEN {<<>>}
    ELSE LET shorter == SeqsUpTo(S, n - 1)
         IN  shorter \cup {Append(s, x) : s \in {t \in shorter : Len(t) = n - 1}, x \in S}

----------------------------------------------------------------------------
(* Values *)

None == [kind |-> "None"]
Absent == [kind |-> "absent"]

\* A dict payload; is_valid is "true", "false" or "missing" (no such key).
DictResult(v) == [kind |-> "dict", is_valid |-> v]

ToolResult(tool_name, status, data, error_message) ==
    [kind |-> "ToolResult", tool_name |-> tool_name, status |-> status,
     data |-> data, error_message |-> error_message]

Decision(decision_type, rationale, metadata) ==
    [kind |-> "Decision", decision_type |-> decision_type,
     rationale |-> rationale, metadata |-> metadata]

\* An object that is not None but has no decision_type attribute.
Untyped == [kind |-> "object"]

NoExc == [type |-> "none", cause |-> "none"]
Raised(type) == [type |-> type, cause |-> "none"]
RaisedFrom(type, cause) == [type |-> type, cause |-> cause]

----------------------------------------------------------------------------
(* AgentState *)

NoRecord == [kind |-> "norecord"]

AgentState(molecule_id) ==
    [kind |-> "AgentState",
     molecule_id |-> molecule_id,
     tool_results |-> [n \in ToolNames |-> Absent],
     messages |-> <<>>,
     decision |-> None,
     tools_complete |-> FALSE,
     terminated |-> FALSE,
     decision_set |-> FALSE]

\* Variant: every result is stored under the validity gate's name.
add_tool_result_one_key(s, tool_name, result) ==
    [s EXCEPT !.tool_results[GateName] = result]

add_tool_result(s, tool_name, result) ==
    [s EXCEPT !.tool_results[tool_name] = result]

\* Variant: the new message is put in front of the list.
add_message_prepending(s, message) ==
    [s EXCEPT !.messages = <<message>> \o @]

add_message(s, message) ==
    [s EXCEPT !.messages = Append(@, message)]

\* Variant: stores the decision but forgets the flag.
set_decision_without_flag(s, decision) ==
    [s EXCEPT !.decision = decision]

set_decision(s, decision) ==
    [s EXCEPT !.decision = decision, !.decision_set = TRUE]

\* reason is None or a non-empty string
terminate(s, reason) ==
    LET t == [s EXCEPT !.terminated = TRUE]
    IN  IF reason # "" THEN add_message(t, "Early termination: " \o reason) ELSE t

is_terminated(s) == s.terminated

\* timestamp is None ("") or a non-empty string
set_tools_complete(s, timestamp) ==
    LET t == [s EXCEPT !.tools_complete = TRUE]
    IN  IF timestamp # "" THEN add_message(t, "All tools completed at " \o timestamp) ELSE t

is_tools_complete(s) == s.tools_complete

is_decision_set(s) == s.decision_set

has_tool_result(s, tool_name) == s.tool_results[tool_name] # Absent

ResultNames(s) == {n \in ToolNames : has_tool_result(s, n)}

----------------------------------------------------------------------------
(* Policies and PolicyEngine *)

\* A string value, to keep it apart from None.
Str(v) == [kind |-> "str", value |-> v]

MoleculeIds == {Str("MOL_001"), None}

\* Behaviours of a Policy: defer (PlaceholderPolicy), always decide PASS,
\* decide DISCARD when the validity result reports an invalid molecule, raise.
PolicyKinds == {"defer", "pass", "discard_invalid", "raise"}

Returns(v, n) == [raises |-> FALSE, value |-> v, consulted |-> n]
Throws(e, n) == [raises |-> TRUE, exc |-> e, consulted |-> n]

ReportsInvalid(r) ==
    \/ r.kind = "dict" /\ r.is_valid = "false"
    \/ r.kind = "ToolResult" /\ r.data.kind = "dict" /\ r.data.is_valid = "false"

\* Policy.evaluate(state) of the policy at position i
Policy_evaluate(kind, i, s) ==
    CASE kind = "defer" -> Returns(None, i)
      [] kind = "pass" -> Returns(Decision(PASS, "policy", [policy |-> i]), i)
      [] kind = "discard_invalid" ->
            IF ReportsInvalid(s.tool_results[GateName])
            THEN Returns(Decision(DISCARD, "policy", [policy |-> i]), i)
            ELSE Returns(None, i)
      [] kind = "raise" -> Throws("RuntimeError", i)

PolicyEngine(policies, default_action) ==
    [kind |-> "PolicyEngine", policies |-> policies, default_action |-> default_action]

\* An injected engine object that is not a PolicyEngine.
OtherEngine == [kind |-> "other"]

NoCall == [kind |-> "nocall"]

\* Variant: a None identifier is let through.
_validate_state_lenient(s) ==
    IF s = None THEN "ValueError"
    ELSE IF "molecule_id" \notin DOMAIN s THEN "ValueError"
    ELSE IF "tool_results" \notin DOMAIN s THEN "ValueError"
    ELSE "ok"

_validate_state(s) ==
    IF s = None THEN "ValueError"
    ELSE IF "molecule_id" \notin DOMAIN s THEN "ValueError"
    ELSE IF s.molecule_id = None THEN "ValueError"
    ELSE IF "tool_results" \notin DOMAIN s THEN "ValueError"
    ELSE "ok"

\* Variant: the fallback metadata does not count the configured policies.
_create_fallback_decision_uncounted(e, s) ==
    Decision(e.default_action, "No decisive policy triggered",
             [decision_type |-> "fallback",
              num_policies_evaluated |-> 0,
              tool_results_count |-> Cardinality(ResultNames(s))])

_create_fallback_decision(e, s) ==
    Decision(e.default_action, "No decisive policy triggered",
             [decision_type |-> "fallback",
              num_policies_evaluated |-> Len(e.policies),
              tool_results_count |-> Cardinality(ResultNames(s))])

\* Variant: a Decision of a later policy overrides an earlier one.
RECURSIVE EvaluateFrom_last_match(_, _, _)
EvaluateFrom_last_match(e, i, s) ==
    IF i > Len(e.policies)
    THEN Returns(_create_fallback_decision(e, s), Len(e.policies))
    ELSE LET r == Policy_evaluate(e.policies[i], i, s)
             rest == EvaluateFrom_last_match(e, i + 1, s)
         IN  IF r.raises THEN r
             ELSE IF r.value = None THEN rest
             ELSE IF rest.raises THEN rest
             ELSE IF rest.value.rationale = "policy" THEN rest
             ELSE r

\* Variant: a policy that raises is skipped like one that defers.
RECURSIVE EvaluateFrom_swallowing(_, _, _)
EvaluateFrom_swallowing(e, i, s) ==
    IF i > Len(e.policies)
    THEN Returns(_create_fallback_decision(e, s), Len(e.policies))
    ELSE LET r == Policy_evaluate(e.policies[i], i, s)
         IN  IF r.raises THEN EvaluateFrom_swallowing(e, i + 1, s)
             ELSE IF r.value # None THEN r
             ELSE EvaluateFrom_swallowing(e, i + 1, s)

RECURSIVE EvaluateFrom(_, _, _)
EvaluateFrom(e, i, s) ==
    IF i > Len(e.policies)
    THEN Returns(_create_fallback_decision(e, s), Len(e.policies))
    ELSE LET r == Policy_evaluate(e.policies[i], i, s)
         IN  IF r.raises THEN r
             ELSE IF r.value # None THEN r
             ELSE EvaluateFrom(e, i + 1, s)

\* PolicyEngine.evaluate(state)
PolicyEngine_evaluate(e, s) ==
    IF _validate_state(s) # "ok" THEN Throws(_validate_state(s), 0)
    ELSE EvaluateFrom(e, 1, s)

\* What self.policy_engine.evaluate(state) can do, by engine object.
EngineOutcomes(e, s) ==
    IF e.kind = "PolicyEngine" THEN {PolicyEngine_evaluate(e, s)}
    ELSE {Returns(None, 0), Returns(Untyped, 0), Throws("PolicyEvaluationError", 0)}

\* default_action of PolicyEngine.__init__ when the caller passes none
DefaultAction == FLAG

Engines ==
    {PolicyEngine(p, d) : p \in SeqsUpTo(PolicyKinds, MaxPolicies),
                          d \in {DefaultAction, DISCARD}}
        \cup {OtherEngine}

----------------------------------------------------------------------------
(* TriageAgent *)

NameList(ts) == [i \in 1..Len(ts) |-> ts[i].name]

\* Variant: the tool objects are compared instead of their names.
HasDuplicateNames_by_object(ts) == Len(ts) # Cardinality({ts[i] : i \in 1..Len(ts)})

\* len(tool_names) != len(set(tool_names)) in __init__
HasDuplicateNames(ts) == Len(ts) # Cardinality({ts[i].name : i \in 1..Len(ts)})

\* tool_names.count(name) for a name of the list
NameCount(ts, name) == Cardinality({i \in 1..Len(ts) : ts[i].name = name})

\* set(duplicates): the names that occur more than once
DuplicateNames(ts) == {ts[i].name : i \in {k \in 1..Len(ts) : NameCount(ts, ts[k].name) > 1}}

\* ValueError(f"Duplicate tool names found: {set(duplicates)}")
DuplicateNamesError(ts) ==
    [type |-> "ValueError", cause |-> "none", names |-> DuplicateNames(ts)]

\* Variant: the None check is missing.
_validate_tool_result_unchecked(result) == "ok"

_validate_tool_result(result) ==
    IF result = None THEN "StateValidationError" ELSE "ok"

_validate_decision(decision) ==
    IF decision = None THEN "StateValidationError"
    ELSE IF decision.kind # "Decision" THEN "StateValidationError"
    ELSE "ok"

\* Variant: the test on is_valid is inverted.
GetIsValid_inverted(validity_data) == validity_data.is_valid # "true"

\* Variant: a missing is_valid entry counts as valid.
GetIsValid_default_true(validity_data) == validity_data.is_valid # "false"

\* validity_data.get('is_valid', False), as the truth value the `if` sees
GetIsValid(validity_data) == validity_data.is_valid = "true"

\* Variant: every declared failure is treated as TERMINAL.
IsTerminalFailure_always(failure_mode) == failure_mode \in ToolFailureMode

\* failure_mode == ToolFailureMode.TERMINAL in the ToolExecutionError handler
IsTerminalFailure(failure_mode) == failure_mode = TERMINAL

\* The error result both except-clauses store before deciding to re-raise.
ErrorResult(tool_name, error_message) ==
    ToolResult(tool_name, FAILURE, None, error_message)

\* Outcome of one pass through the try-body once tool.run(state) has returned
\* `result`: the state afterwards and how control leaves the body.
Step(s, how, e) == [state |-> s, how |-> how, exc |-> e]

\* Variant: re-raises without recording the failure.
HandleUnexpected_unrecorded(s, tool_name, e) ==
    Step(s, "raise", Raised(e))

\* except Exception: record the failure, then re-raise e
HandleUnexpected(s, tool_name, e) ==
    Step(add_tool_result(s, tool_name, ErrorResult(tool_name, "Unexpected error: " \o e)),
         "raise", Raised(e))

\* Variant: a TERMINAL failure is re-raised before it is recorded.
HandleDeclared_raise_first(s, tool) ==
    IF IsTerminalFailure(tool.mode)
    THEN Step(s, "raise", Raised("ToolExecutionError"))
    ELSE Step(add_tool_result(s, tool.name, ErrorResult(tool.name, "ToolExecutionError")),
              "continue", NoExc)

\* Variant: a declared failure of the validity gate counts as an invalid verdict.
HandleDeclared_gate_terminates(s, tool) ==
    LET recorded == add_tool_result(s, tool.name, ErrorResult(tool.name, "ToolExecutionError"))
    IN  IF IsTerminalFailure(tool.mode)
        THEN Step(recorded, "raise", Raised("ToolExecutionError"))
        ELSE IF tool.name = GateName
        THEN Step(terminate(add_message(recorded, "Molecule failed validity check"),
                            "Invalid chemistry"),
                  "break", NoExc)
        ELSE Step(recorded, "continue", NoExc)

\* except ToolExecutionError: record the failure, re-raise only if TERMINAL
HandleDeclared(s, tool) ==
    LET recorded == add_tool_result(s, tool.name, ErrorResult(tool.name, "ToolExecutionError"))
    IN  IF IsTerminalFailure(tool.mode)
        THEN Step(recorded, "raise", Raised("ToolExecutionError"))
        ELSE Step(recorded, "continue", NoExc)

\* Variant: an invalid molecule is raised as an error instead of ending the loop.
ValidityHook_raising(s, tool_name, result) ==
    LET validity_data == IF result.kind = "ToolResult" THEN result.data ELSE result
    IN  IF validity_data.kind # "dict"
        THEN HandleUnexpected(s, tool_name, "AttributeError")
        ELSE IF ~GetIsValid(validity_data)
        THEN Step(terminate(add_message(s, "Molecule failed validity check"),
                            "Invalid chemistry"),
                  "raise", Raised("ValueError"))
        ELSE Step(s, "continue", NoExc)

\* Variant: the hook ends the loop whatever the verdict is.
ValidityHook_always_terminating(s, tool_name, result) ==
    LET validity_data == IF result.kind = "ToolResult" THEN result.data ELSE result
    IN  IF validity_data.kind # "dict"
        THEN HandleUnexpected(s, tool_name, "AttributeError")
        ELSE Step(terminate(add_message(s, "Molecule failed validity check"),
                            "Invalid chemistry"),
                  "break", NoExc)

\* The "ValidityTool" hook, run after the result has been stored.
ValidityHook(s, tool_name, result) ==
    LET validity_data == IF result.kind = "ToolResult" THEN result.data ELSE result
    IN  IF validity_data.kind # "dict"
        THEN HandleUnexpected(s, tool_name, "AttributeError")
        ELSE IF ~GetIsValid(validity_data)
        THEN Step(terminate(add_message(s, "Molecule failed validity check"),
                            "Invalid chemistry"),
                  "break", NoExc)
        ELSE Step(s, "continue", NoExc)

\* Variant: a None result is recorded as a failure and the loop goes on.
HandleReturn_swallowing_null(s, tool, result) ==
    IF _validate_tool_result(result) # "ok"
    THEN Step(add_tool_result(s, tool.name,
                              ErrorResult(tool.name, _validate_tool_result(result))),
              "continue", NoExc)
    ELSE LET stored == add_tool_result(s, tool.name, result)
         IN  IF tool.name = GateName
             THEN ValidityHook(stored, tool.name, result)
             ELSE Step(stored, "continue", NoExc)

\* The try-body after tool.run(state) returned `result`: validate, store,
\* and run the validity hook for the tool named "ValidityTool".
HandleReturn(s, tool, result) ==
    IF _validate_tool_result(result) # "ok"
    THEN HandleUnexpected(s, tool.name, _validate_tool_result(result))
    ELSE LET stored == add_tool_result(s, tool.name, result)
         IN  IF tool.name = GateName
             THEN ValidityHook(stored, tool.name, result)
             ELSE Step(stored, "continue", NoExc)

\* What tool.run(state) may return, by tool.  Only the validity gate's payload
\* is inspected by the agent; other payloads are opaque.
ValidityPayloads == {DictResult(v) : v \in {"true", "false", "missing"}}

ReturnValues(tool_name) ==
    IF tool_name = GateName
    THEN {None} \cup ValidityPayloads
            \cup {ToolResult(tool_name, SUCCESS, d, None) : d \in ValidityPayloads \cup {None}}
    ELSE {None, DictResult("missing"), ToolResult(tool_name, SUCCESS, None, None)}

\* Variant: every engine error is wrapped, the agent's own included.
EngineErrorRaised_always_wrapped(e) == RaisedFrom("PolicyEvaluationError", e)

\* What the except clauses around evaluate and _validate_decision raise for an
\* error e of the try-body: PolicyEvaluationError is re-raised as it is,
\* anything else is wrapped (raise PolicyEvaluationError(...) from e).
EngineErrorRaised(e) ==
    IF e = "PolicyEvaluationError"
    THEN Raised("PolicyEvaluationError")
    ELSE RaisedFrom("PolicyEvaluationError", e)

\* Errors a tool can raise that are not the agent's ToolExecutionError.
UnexpectedErrors == {"tools.base_tool.ToolExecutionError", "RuntimeError"}

\* Variant: the loop steps over the tool after the current one.
NextTool_skipping(i) == i + 2

\* Position of the next loop iteration after the one at i.
NextTool(i) == i + 1

----------------------------------------------------------------------------
(* State machine *)

Init ==
    /\ pc = "new"
    /\ tools \in SeqsUpTo(ToolConfigs, MaxTools)
    /\ engine \in Engines
    /\ state = NoRecord
    /\ idx = 0
    /\ decisionLocal = None
    /\ exc = NoExc
    /\ invoked = <<>>
    /\ outcomes = <<>>
    /\ engineCalls = 0
    /\ engineResult = NoCall
    /\ cleared = FALSE
    /\ call = NoCall
    /\ runs = <<>>
    /\ heap = <<>>

\* Variant: an empty tool list is rejected, as the docstring of __init__ says.
TriageAgent_init_rejecting_empty ==
    /\ pc = "new"
    /\ IF Len(tools) = 0
       THEN pc' = "ctor_raised" /\ exc' = Raised("ValueError")
       ELSE IF HasDuplicateNames(tools)
       THEN pc' = "ctor_raised" /\ exc' = DuplicateNamesError(tools)
       ELSE pc' = "ready" /\ exc' = exc
    /\ UNCHANGED <<tools, engine, state, idx, decisionLocal, invoked, outcomes, engineCalls, engineResult, otherVars>>

\* TriageAgent.__init__: rejects duplicate tool names, accepts an empty list.
TriageAgent_init ==
    /\ pc = "new"
    /\ IF HasDuplicateNames(tools)
       THEN pc' = "ctor_raised" /\ exc' = DuplicateNamesError(tools)
       ELSE pc' = "ready" /\ exc' = exc
    /\ UNCHANGED <<tools, engine, state, idx, decisionLocal, invoked, outcomes, engineCalls, engineResult, otherVars>>

\* run(): create the AgentState.
run_begin ==
    /\ pc = "ready"
    /\ \E molecule_id \in MoleculeIds : state' = AgentState(molecule_id)
    /\ pc' = "initialized"
    /\ UNCHANGED <<tools, engine, idx, decisionLocal, exc, invoked, outcomes, engineCalls, engineResult, otherVars>>

\* `for tool in self.tools`: start the iteration at the first tool.
enter_loop ==
    /\ pc = "initialized"
    /\ idx' = 1
    /\ pc' = "loop"
    /\ UNCHANGED <<tools, engine, state, decisionLocal, exc, invoked, outcomes, engineCalls, engineResult, otherVars>>

\* Variant: the loop does not look at the termination flag.
loop_head_ignoring_flag ==
    /\ pc = "loop"
    /\ IF idx > Len(tools)
       THEN pc' = "post_loop" /\ invoked' = invoked
       ELSE pc' = "in_tool" /\ invoked' = Append(invoked, tools[idx].name)
    /\ UNCHANGED <<tools, engine, state, idx, decisionLocal, exc, outcomes, engineCalls, engineResult, otherVars>>

\* Variant: with the termination flag set the loop neither invokes a tool nor
\* is left (it has no step to take).
loop_head_spinning ==
    /\ pc = "loop"
    /\ idx > Len(tools) \/ ~is_terminated(state)
    /\ IF idx > Len(tools)
       THEN pc' = "post_loop" /\ invoked' = invoked
       ELSE pc' = "in_tool" /\ invoked' = Append(invoked, tools[idx].name)
    /\ UNCHANGED <<tools, engine, state, idx, decisionLocal, exc, outcomes, engineCalls, engineResult, otherVars>>

\* Top of one loop iteration: leave on exhaustion or on the termination flag,
\* otherwise call tool.run(state).
loop_head ==
    /\ pc = "loop"
    /\ IF idx > Len(tools) \/ is_terminated(state)
       THEN pc' = "post_loop" /\ invoked' = invoked
       ELSE pc' = "in_tool" /\ invoked' = Append(invoked, tools[idx].name)
    /\ UNCHANGED <<tools, engine, state, idx, decisionLocal, exc, outcomes, engineCalls, engineResult, otherVars>>

\* The running tool calls state.terminate() on the state it was handed.
\* (Enabled once per run: a second call changes no flag.)
tool_calls_terminate ==
    /\ pc = "in_tool"
    /\ ~is_terminated(state)
    /\ \E reason \in {"", "tool request"} : state' = terminate(state, reason)
    /\ UNCHANGED <<pc, tools, engine, idx, decisionLocal, exc, invoked, outcomes, engineCalls, engineResult, otherVars>>

\* Variant: a fatal error of a tool is kept for later and the engine is still
\* consulted (as if the rest of run() sat in a finally block).
Leave_deciding_anyway(step, outcome) ==
    /\ state' = step.state
    /\ outcomes' = Append(outcomes, outcome)
    /\ CASE step.how = "continue" -> pc' = "loop" /\ idx' = NextTool(idx) /\ exc' = exc
         [] step.how = "break" -> pc' = "post_loop" /\ idx' = idx /\ exc' = exc
         [] step.how = "raise" -> pc' = "post_loop" /\ idx' = idx /\ exc' = step.exc
    /\ UNCHANGED <<tools, engine, decisionLocal, invoked, engineCalls, engineResult, otherVars>>

\* Leave the try statement of the iteration at idx according to `step`.
Leave(step, outcome) ==
    /\ state' = step.state
    /\ outcomes' = Append(outcomes, outcome)
    /\ CASE step.how = "continue" -> pc' = "loop" /\ idx' = NextTool(idx) /\ exc' = exc
         [] step.how = "break" -> pc' = "post_loop" /\ idx' = idx /\ exc' = exc
         [] step.how = "raise" -> pc' = "raised" /\ idx' = idx /\ exc' = step.exc
    /\ UNCHANGED <<tools, engine, decisionLocal, invoked, engineCalls, engineResult, otherVars>>

\* tool.run(state) returns a value (None included).
tool_returns ==
    /\ pc = "in_tool"
    /\ \E result \in ReturnValues(tools[idx].name) :
          Leave(HandleReturn(state, tools[idx], result),
                [how |-> "returned", value |-> result])

\* tool.run(state) raises the agent module's ToolExecutionError.
tool_raises_declared ==
    /\ pc = "in_tool"
    /\ Leave(HandleDeclared(state, tools[idx]),
             [how |-> "raised", error |-> "ToolExecutionError"])

\* tool.run(state) raises any other exception.
tool_raises_unexpected ==
    /\ pc = "in_tool"
    /\ \E e \in UnexpectedErrors :
          Leave(HandleUnexpected(state, tools[idx].name, e),
                [how |-> "raised", error |-> e])

\* Variant: no completion message after an early termination.
post_loop_silent_when_terminated ==
    /\ pc = "post_loop"
    /\ state' = IF is_terminated(state) THEN state
                ELSE add_message(state, "All tools completed")
    /\ pc' = "deciding"
    /\ UNCHANGED <<tools, engine, idx, decisionLocal, exc, invoked, outcomes, engineCalls, engineResult, otherVars>>

\* After the loop: the completion message (set_tools_complete is commented out).
post_loop ==
    /\ pc = "post_loop"
    /\ state' = add_message(state, "All tools completed")
    /\ pc' = "deciding"
    /\ UNCHANGED <<tools, engine, idx, decisionLocal, exc, invoked, outcomes, engineCalls, engineResult, otherVars>>

\* The try statement around policy_engine.evaluate and _validate_decision.
\* Variant: the engine's value is stored without being validated.
policy_evaluation_unvalidated ==
    /\ pc = "deciding"
    /\ engineCalls' = engineCalls + 1
    /\ \E r \in EngineOutcomes(engine, state) :
          /\ engineResult' = r
          /\ IF r.raises
             THEN /\ pc' = "raised"
                  /\ exc' = EngineErrorRaised(r.exc)
                  /\ decisionLocal' = decisionLocal
             ELSE /\ pc' = "store"
                  /\ exc' = exc
                  /\ decisionLocal' = r.value
    /\ UNCHANGED <<tools, engine, state, idx, invoked, outcomes, otherVars>>

policy_evaluation ==
    /\ pc = "deciding"
    /\ engineCalls' = engineCalls + 1
    /\ \E r \in EngineOutcomes(engine, state) :
          /\ engineResult' = r
          /\ IF r.raises
             THEN /\ pc' = "raised"
                  /\ exc' = EngineErrorRaised(r.exc)
                  /\ decisionLocal' = decisionLocal
             ELSE IF _validate_decision(r.value) # "ok"
             THEN /\ pc' = "raised"
                  /\ exc' = EngineErrorRaised(_validate_decision(r.value))
                  /\ decisionLocal' = r.value
             ELSE /\ pc' = "store"
                  /\ exc' = exc
                  /\ decisionLocal' = r.value
    /\ UNCHANGED <<tools, engine, state, idx, invoked, outcomes, otherVars>>

\* state.set_decision(decision) and return state.
store_and_return ==
    /\ pc = "store"
    /\ state' = set_decision(state, decisionLocal)
    /\ pc' = "returned"
    /\ UNCHANGED <<tools, engine, idx, decisionLocal, exc, invoked, outcomes, engineCalls, engineResult, otherVars>>

Next ==
    \/ TriageAgent_init
    \/ run_begin
    \/ enter_loop
    \/ loop_head
    \/ tool_calls_terminate
    \/ tool_returns
    \/ tool_raises_declared
    \/ tool_raises_unexpected
    \/ post_loop
    \/ policy_evaluation
    \/ store_and_return

Spec == Init /\ [][Next]_vars

\* Tool lists TriageAgent.__init__ accepts: run() exists only for these.
AcceptedTools == {ts \in SeqsUpTo(ToolConfigs, MaxTools) : ~HasDuplicateNames(ts)}

\* Rule lists on which evaluate goes through every rule: all rules before
\* the last one defer.
FullLengthPolicies ==
    {p \in SeqsUpTo(PolicyKinds, MaxPolicies) :
        \A j \in 1..(Len(p) - 1) : p[j] = "defer"}

\* Engines with such a list and the default default_action, and the foreign
\* engine object.
DefaultEngines ==
    {PolicyEngine(p, DefaultAction) : p \in FullLengthPolicies} \cup {OtherEngine}

InitAccepted ==
    /\ pc = "new"
    /\ tools \in AcceptedTools
    /\ engine \in DefaultEngines
    /\ state = NoRecord
    /\ idx = 0
    /\ decisionLocal = None
    /\ exc = NoExc
    /\ invoked = <<>>
    /\ outcomes = <<>>
    /\ engineCalls = 0
    /\ engineResult = NoCall
    /\ cleared = FALSE
    /\ call = NoCall
    /\ runs = <<>>
    /\ heap = <<>>

\* run() is sequential code: the statement control has reached is executed,
\* and a tool or rule that was called returns or raises.
SpecFair == InitAccepted /\ [][Next]_vars /\ WF_vars(Next)

----------------------------------------------------------------------------
(* The caller and the returned record *)

\* run() hands the caller the AgentState object itself, so the caller can
\* call its mutators.  One call on the returned record is modelled.
CallerUnchanged ==
    UNCHANGED <<tools, engine, idx, decisionLocal, exc, invoked, outcomes,
                engineCalls, engineResult, otherVars>>

caller_add_tool_result ==
    /\ pc = "returned"
    /\ \E tool_name \in ToolNames :
          state' = add_tool_result(state, tool_name, DictResult("missing"))
    /\ pc' = "mutated"
    /\ CallerUnchanged

caller_add_message ==
    /\ pc = "returned"
    /\ state' = add_message(state, "late")
    /\ pc' = "mutated"
    /\ CallerUnchanged

caller_terminate ==
    /\ pc = "returned"
    /\ \E reason \in {"", "late"} : state' = terminate(state, reason)
    /\ pc' = "mutated"
    /\ CallerUnchanged

caller_set_tools_complete ==
    /\ pc = "returned"
    /\ \E timestamp \in {"", "late"} : state' = set_tools_complete(state, timestamp)
    /\ pc' = "mutated"
    /\ CallerUnchanged

caller_set_decision ==
    /\ pc = "returned"
    /\ \E decision \in {None, Decision(DISCARD, "late", [policy |-> 0])} :
          state' = set_decision(state, decision)
    /\ pc' = "mutated"
    /\ CallerUnchanged

NextWithCaller ==
    \/ Next
    \/ caller_add_tool_result
    \/ caller_add_message
    \/ caller_terminate
    \/ caller_set_tools_complete
    \/ caller_set_decision

SpecWithCaller == Init /\ [][NextWithCaller]_vars

----------------------------------------------------------------------------
(* The PolicyEngine on its own *)

\* Clock readings (datetime.now().isoformat()).
Times == {"t1", "t2"}

\* `if "timestamp" not in self.metadata: self.metadata["timestamp"] = now`
WithTimestamp(metadata, now) ==
    IF "timestamp" \in DOMAIN metadata THEN metadata
    ELSE [k \in DOMAIN metadata \cup {"timestamp"} |->
             IF k = "timestamp" THEN now ELSE metadata[k]]

\* Variant: the clock reading also goes into the rationale.
TimedResult_in_rationale(r, now) ==
    IF r.raises THEN r
    ELSE [r EXCEPT !.value.metadata = WithTimestamp(@, now),
                   !.value.rationale = @ \o now]

\* The result of an evaluate call made at clock reading `now`: the Decision
\* it returns is constructed during the call and so carries that timestamp.
TimedResult(r, now) ==
    IF r.raises THEN r
    ELSE [r EXCEPT !.value.metadata = WithTimestamp(@, now)]

\* Variant: the new policy is put in front of the list.
add_policy_prepending(e, policy) == [e EXCEPT !.policies = <<policy>> \o @]

add_policy(e, policy) == [e EXCEPT !.policies = Append(@, policy)]

\* Variant: nothing is removed.
clear_policies_noop(e) == e

clear_policies(e) == [e EXCEPT !.policies = <<>>]

\* An object with an identifier but no tool_results attribute.
NoResultsObject == [kind |-> "object", molecule_id |-> Str("MOL_001")]

RecordSamples(molecule_id) ==
    LET fresh == AgentState(molecule_id)
        invalid == add_tool_result(fresh, GateName, DictResult("false"))
    IN  {fresh,
         add_tool_result(fresh, GateName, DictResult("true")),
         invalid,
         add_tool_result(invalid, "A", ErrorResult("A", "ToolExecutionError"))}

\* What a caller may hand to evaluate.
EngineRecords ==
    {None, NoResultsObject} \cup UNION {RecordSamples(id) : id \in MoleculeIds}

\* PolicyEngine(policies, default_action) with no or one policy; longer
\* lists are built with add_policy.
ConstructedEngines ==
    {PolicyEngine(p, d) : p \in SeqsUpTo(PolicyKinds, 1), d \in {DefaultAction, DISCARD}}

InitEngine ==
    /\ pc = "engine"
    /\ engine \in ConstructedEngines
    /\ state \in EngineRecords
    /\ engineResult = NoCall
    /\ cleared = FALSE
    /\ tools = <<>> /\ idx = 0 /\ decisionLocal = None /\ exc = NoExc
    /\ invoked = <<>> /\ outcomes = <<>> /\ engineCalls = 0
    /\ call = NoCall /\ runs = <<>> /\ heap = <<>>

EngineUnchanged ==
    UNCHANGED <<pc, tools, idx, decisionLocal, exc, invoked, outcomes, engineCalls,
                call, runs, heap>>

\* engine.add_policy(policy).  engineResult keeps the result of the last
\* evaluate on the current policy list, so it is forgotten here.
engine_add_policy ==
    /\ Len(engine.policies) < MaxPolicies
    /\ \E policy \in PolicyKinds : engine' = add_policy(engine, policy)
    /\ cleared' = FALSE
    /\ engineResult' = NoCall
    /\ state' = state
    /\ EngineUnchanged

\* engine.clear_policies()
engine_clear_policies ==
    /\ engine' = clear_policies(engine)
    /\ cleared' = TRUE
    /\ engineResult' = NoCall
    /\ state' = state
    /\ EngineUnchanged

\* Variant: evaluate stores the Decision it returns into the record.
engine_evaluate_storing ==
    /\ \E now \in Times :
          LET r == TimedResult(PolicyEngine_evaluate(engine, state), now)
          IN  /\ engineResult' = r
              /\ state' = IF r.raises THEN state ELSE set_decision(state, r.value)
    /\ UNCHANGED <<engine, cleared>>
    /\ EngineUnchanged

\* engine.evaluate(state) at some clock reading
engine_evaluate ==
    /\ \E now \in Times :
          engineResult' = TimedResult(PolicyEngine_evaluate(engine, state), now)
    /\ UNCHANGED <<engine, state, cleared>>
    /\ EngineUnchanged

NextEngine ==
    \/ engine_add_policy
    \/ engine_clear_policies
    \/ engine_evaluate

SpecEngine == InitEngine /\ [][NextEngine]_vars

----------------------------------------------------------------------------
(* Decision on its own *)

\* A rationale is a string over a blank and a non-blank character.
Chars == {" ", "x"}

Rationales == SeqsUpTo(Chars, MaxRationaleLen)

RECURSIVE lstrip(_)
lstrip(r) ==
    IF r = <<>> THEN r
    ELSE IF Head(r) = " " THEN lstrip(Tail(r))
    ELSE r

RECURSIVE rstrip(_)
rstrip(r) ==
    IF r = <<>> THEN r
    ELSE IF r[Len(r)] = " " THEN rstrip(SubSeq(r, 1, Len(r) - 1))
    ELSE r

\* str.strip()
strip(r) == rstrip(lstrip(r))

\* A member of the DecisionType enum, as an argument value.
Member(m) == [kind |-> "DecisionType", member |-> m]

\* What a caller may pass as decision_type: a member, or a plain string.
DecisionTypeArgs == {Member(m) : m \in DecisionType} \cup {Str("pass")}

EmptyDict == [k \in {} |-> None]

\* Metadata dicts: empty, with a caller-supplied timestamp, with another key.
MetadataArgs == {EmptyDict, [timestamp |-> "t0"], [confidence |-> "high"]}

Ok(v) == [raises |-> FALSE, value |-> v]
Err(e) == [raises |-> TRUE, exc |-> e]

\* Variant: only the empty string is rejected, not a whitespace-only one.
Decision_post_init_unstripped(decision_type, rationale, metadata, now) ==
    IF decision_type.kind # "DecisionType" THEN Err("TypeError")
    ELSE IF rationale = <<>> THEN Err("ValueError")
    ELSE Ok(Decision(decision_type.member, rationale, WithTimestamp(metadata, now)))

\* Decision(decision_type, rationale, metadata) at clock reading `now`:
\* the dataclass constructor followed by __post_init__ (metadata is a dict).
Decision_post_init(decision_type, rationale, metadata, now) ==
    IF decision_type.kind # "DecisionType" THEN Err("TypeError")
    ELSE IF rationale = <<>> \/ strip(rationale) = <<>> THEN Err("ValueError")
    ELSE Ok(Decision(decision_type.member, rationale, WithTimestamp(metadata, now)))

\* DecisionType.value: the member's string
DecisionType_value(m) == Str(m)

\* DecisionType(value): the member with that string, or ValueError
DecisionType_lookup(v) ==
    IF v \in {DecisionType_value(m) : m \in DecisionType}
    THEN Ok(Member(v.value))
    ELSE Err("ValueError")

\* Decision.to_dict()
Decision_to_dict(d) ==
    [decision_type |-> DecisionType_value(d.decision_type),
     rationale |-> d.rationale,
     metadata |-> d.metadata]

\* Variant: the stored metadata is not passed on.
Decision_from_dict_fresh_metadata(data, now) ==
    LET member == DecisionType_lookup(data.decision_type)
    IN  IF member.raises THEN member
        ELSE Decision_post_init(member.value, data.rationale, EmptyDict, now)

\* Decision.from_dict(data) at clock reading `now`
Decision_from_dict(data, now) ==
    LET member == DecisionType_lookup(data.decision_type)
        metadata == IF "metadata" \in DOMAIN data THEN data.metadata ELSE EmptyDict
    IN  IF member.raises THEN member
        ELSE Decision_post_init(member.value, data.rationale, metadata, now)

InitDecision ==
    /\ pc = "decision"
    /\ call \in [op : {"args"}, decision_type : DecisionTypeArgs,
                  rationale : Rationales, metadata : MetadataArgs]
    /\ tools = <<>> /\ engine = OtherEngine /\ state = NoRecord /\ idx = 0
    /\ decisionLocal = None /\ exc = NoExc /\ invoked = <<>> /\ outcomes = <<>>
    /\ engineCalls = 0 /\ engineResult = NoCall
    /\ cleared = FALSE /\ runs = <<>> /\ heap = <<>>

DecisionUnchanged ==
    UNCHANGED <<pc, tools, engine, state, idx, decisionLocal, exc, invoked, outcomes,
                engineCalls, engineResult, cleared, runs, heap>>

\* Decision(...) is called with the arguments.
Decision_construct ==
    /\ call.op = "args"
    /\ \E now \in Times :
          call' = [op |-> "constructed", args |-> call, now |-> now,
                   result |-> Decision_post_init(call.decision_type, call.rationale,
                                                 call.metadata, now)]
    /\ DecisionUnchanged

\* Decision.from_dict(d.to_dict()) for the Decision d just constructed.
Decision_round_trip ==
    /\ call.op = "constructed"
    /\ ~call.result.raises
    /\ \E now \in Times :
          call' = [op |-> "round_trip", d |-> call.result.value, now |-> now,
                   result |-> Decision_from_dict(Decision_to_dict(call.result.value), now)]
    /\ DecisionUnchanged

NextDecision ==
    \/ Decision_construct
    \/ Decision_round_trip

SpecDecision == InitDecision /\ [][NextDecision]_vars

----------------------------------------------------------------------------
(* Several run() calls on one TriageAgent *)

\* A record as an object: tool_results and messages are references into
\* `heap` (the dict and the list the dataclass fields hold), the other fields
\* are values of the instance.

\* Variant: the dict and the list are class-level defaults shared by all
\* instances.
FreshRefs_shared(h) == [tool_results |-> 1, messages |-> 2]

\* field(default_factory=dict) / field(default_factory=list): new objects
\* for every instance.
FreshRefs(h) == [tool_results |-> Len(h) + 1, messages |-> Len(h) + 2]

\* The heap once the objects at `refs` exist.
Allocated(h, refs) ==
    IF refs.tool_results > Len(h)
    THEN h \o <<[n \in ToolNames |-> Absent], <<>>>>
    ELSE h

\* AgentState(molecule_id=..., raw_input=..., execution_start_time=...)
NewRecord(h, molecule_id) ==
    [AgentState(molecule_id) EXCEPT !.tool_results = FreshRefs(h).tool_results,
                                    !.messages = FreshRefs(h).messages]

\* The record with its dict and list read through the references.
Load(h, rec) ==
    [rec EXCEPT !.tool_results = h[rec.tool_results], !.messages = h[rec.messages]]

\* The heap after the mutators turned the record's content into that of s.
Store(h, rec, s) ==
    [h EXCEPT ![rec.tool_results] = s.tool_results, ![rec.messages] = s.messages]

\* The instance after the mutators: flags and decision of s, same references.
Rebind(rec, s) ==
    [s EXCEPT !.tool_results = rec.tool_results, !.messages = rec.messages]

\* Everything one loop iteration can do to the record for tool `tool`.
ToolSteps(s, tool) ==
    {HandleReturn(s, tool, result) : result \in ReturnValues(tool.name)}
        \cup {HandleDeclared(s, tool)}
        \cup {HandleUnexpected(s, tool.name, e) : e \in UnexpectedErrors}

\* The agent all runs of this specification share.
SharedTools == <<[name |-> GateName, mode |-> NON_TERMINAL], [name |-> "A", mode |-> NON_TERMINAL]>>

SharedEngine == PolicyEngine(<<"discard_invalid">>, DefaultAction)

InitRuns ==
    /\ pc = "ready"
    /\ tools = SharedTools
    /\ engine = SharedEngine
    /\ runs = <<>>
    /\ heap = <<>>
    /\ state = NoRecord /\ idx = 0 /\ decisionLocal = None /\ exc = NoExc
    /\ invoked = <<>> /\ outcomes = <<>> /\ engineCalls = 0 /\ engineResult = NoCall
    /\ cleared = FALSE /\ call = NoCall

RunsUnchanged ==
    UNCHANGED <<pc, tools, engine, state, idx, decisionLocal, exc, invoked, outcomes,
                engineCalls, engineResult, cleared, call>>

\* The record of run r goes from its current content to that of s, and the
\* run to position p (and loop position i).
RunGoes(r, s, p, i) ==
    /\ heap' = Store(heap, runs[r].state, s)
    /\ runs' = [runs EXCEPT ![r] = [pc |-> p, idx |-> i, state |-> Rebind(runs[r].state, s)]]
    /\ RunsUnchanged

\* A new run() call: create its AgentState.
runs_begin ==
    /\ Len(runs) < MaxRuns
    /\ \E molecule_id \in {Str("MOL_001")} :
          /\ heap' = Allocated(heap, FreshRefs(heap))
          /\ runs' = Append(runs, [pc |-> "loop", idx |-> 1,
                                    state |-> NewRecord(heap, molecule_id)])
    /\ RunsUnchanged

\* One loop iteration of run r.
runs_invoke_tool(r) ==
    /\ runs[r].pc = "loop"
    /\ runs[r].idx <= Len(tools)
    /\ ~is_terminated(runs[r].state)
    /\ \E step \in ToolSteps(Load(heap, runs[r].state), tools[runs[r].idx]) :
          CASE step.how = "continue" ->
                  RunGoes(r, step.state, "loop", NextTool(runs[r].idx))
            [] step.how = "break" ->
                  RunGoes(r, step.state, "post_loop", runs[r].idx)
            [] step.how = "raise" ->
                  RunGoes(r, step.state, "raised", runs[r].idx)

\* Run r leaves the loop and appends the completion message.
runs_post_loop(r) ==
    /\ \/ runs[r].pc = "post_loop"
       \/ runs[r].pc = "loop" /\ (runs[r].idx > Len(tools) \/ is_terminated(runs[r].state))
    /\ RunGoes(r, add_message(Load(heap, runs[r].state), "All tools completed"),
               "deciding", runs[r].idx)

\* Run r consults the engine, stores the Decision and returns.
runs_decide(r) ==
    /\ runs[r].pc = "deciding"
    /\ LET s == Load(heap, runs[r].state)
       IN  \E res \in EngineOutcomes(engine, s) :
              IF res.raises \/ _validate_decision(res.value) # "ok"
              THEN RunGoes(r, s, "raised", runs[r].idx)
              ELSE RunGoes(r, set_decision(s, res.value), "returned", runs[r].idx)

NextRuns ==
    \/ runs_begin
    \/ \E r \in 1..Len(runs) : runs_invoke_tool(r)
    \/ \E r \in 1..Len(runs) : runs_post_loop(r)
    \/ \E r \in 1..Len(runs) : runs_decide(r)

SpecRuns == InitRuns /\ [][NextRuns]_vars

----------------------------------------------------------------------------
(* Vocabulary of the properties *)

HasRecord == state # NoRecord

\* AgentState.to_dict(): the fields of the record under their names; the
\* decision entry is the decision attribute itself.
AgentState_to_dict(s) ==
    [molecule_id |-> s.molecule_id,
     tool_results |-> s.tool_results,
     messages |-> s.messages,
     decision |-> s.decision,
     tools_complete |-> s.tools_complete,
     terminated |-> s.terminated,
     decision_set |-> s.decision_set]

Finished == pc \in {"returned", "raised"}

\* The tool loop has been left normally and run() is on its way to the engine.
PastLoop == pc \in {"post_loop", "deciding", "store", "returned"}

\* run() is inside the tool loop.
InLoop == pc \in {"loop", "in_tool"}

\* run() raised from inside the tool loop (the engine was never reached).
RaisedInLoop == pc = "raised" /\ engineCalls = 0

FinishedUnits == 1..Len(outcomes)

IsFailureResult(r) == r.kind = "ToolResult" /\ r.status = FAILURE

StoredUnder(i) == state.tool_results[tools[i].name]

Messages == {state.messages[m] : m \in 1..Len(state.messages)}

TerminationMessages == {"Molecule failed validity check", "Early termination: Invalid chemistry"}

\* The i-th invocation was the validity gate returning a result that says invalid.
GateReturnedInvalidAt(i) ==
    /\ tools[i].name = GateName
    /\ outcomes[i].how = "returned"
    /\ ReportsInvalid(outcomes[i].value)

\* The i-th invocation raised the agent module's ToolExecutionError.
DeclaredFailureAt(i) ==
    outcomes[i].how = "raised" /\ outcomes[i].error = "ToolExecutionError"

\* The i-th invocation raised something else.
UnexpectedErrorAt(i) ==
    outcomes[i].how = "raised" /\ outcomes[i].error # "ToolExecutionError"

NullResultAt(i) ==
    outcomes[i].how = "returned" /\ outcomes[i].value = None

\* The i-th invocation returned a result the agent can process: not None and,
\* for the validity gate, a payload the hook can read.
ReturnedUsableAt(i) ==
    /\ outcomes[i].how = "returned"
    /\ outcomes[i].value # None
    /\ tools[i].name = GateName =>
          (IF outcomes[i].value.kind = "ToolResult"
           THEN outcomes[i].value.data.kind = "dict"
           ELSE outcomes[i].value.kind = "dict")

\* A PolicyEngine whose evaluate cannot fail on this record.
EngineCannotFail ==
    /\ engine.kind = "PolicyEngine"
    /\ \A j \in 1..Len(engine.policies) : engine.policies[j] # "raise"
    /\ state.molecule_id # None

----------------------------------------------------------------------------
(* C1 .. C10 *)

\* C1: the record's decision is present iff decision_set is true iff run()
\* returned normally; a run that raised leaves decision absent and
\* decision_set false, and a run that returned carries a Decision.
C1_DecisionIffReturned ==
    HasRecord =>
        /\ (state.decision # None) <=> state.decision_set
        /\ state.decision_set <=> (pc = "returned")
        /\ pc = "raised" => (state.decision = None /\ ~state.decision_set)
        /\ pc = "returned" => state.decision.kind = "Decision"

C1_Witness ==
    /\ pc = "returned"
    /\ state.decision_set
    /\ \E i \in FinishedUnits : DeclaredFailureAt(i)

\* C2: with pairwise-distinct names, tools are invoked in list order, each at
\* most once, none before the previous one has finished, none skipped, and the
\* loop stops early only on termination or a fatal error.
C2_InvokedInListOrder ==
    ~HasDuplicateNames(tools) =>
        /\ Len(invoked) <= Len(tools)
        /\ invoked = SubSeq(NameList(tools), 1, Len(invoked))
        /\ Len(outcomes) = Len(invoked) - (IF pc = "in_tool" THEN 1 ELSE 0)
        /\ (PastLoop /\ ~state.terminated) => Len(invoked) = Len(tools)

C2_Witness ==
    /\ pc = "returned"
    /\ Len(invoked) = 2
    /\ ~state.terminated

\* C3: once the validity gate has returned a result reporting the molecule
\* invalid, no later tool is invoked, terminated is true and messages holds a
\* termination message.
C3_InvalidGateTerminates ==
    \A i \in FinishedUnits :
        GateReturnedInvalidAt(i) =>
            /\ Len(invoked) = i
            /\ state.terminated
            /\ Messages \cap TerminationMessages # {}

C3_Witness ==
    /\ pc = "returned"
    /\ \E i \in FinishedUnits : GateReturnedInvalidAt(i) /\ i < Len(tools)

\* C4: an invalid verdict of the validity gate does not make run() raise: the
\* loop is left normally, the engine is consulted exactly once, and the
\* returned record has terminated true, the gate's result under its name and
\* a Decision.  Only a failure of the engine itself can still abort the run.
C4_InvalidGateStillDecides ==
    \A i \in FinishedUnits :
        GateReturnedInvalidAt(i) =>
            /\ ~RaisedInLoop
            /\ Finished => engineCalls = 1
            /\ (Finished /\ EngineCannotFail) => pc = "returned"
            /\ pc = "returned" =>
                  /\ state.terminated
                  /\ StoredUnder(i) = outcomes[i].value
                  /\ state.decision.kind = "Decision"

C4_Witness ==
    /\ pc = "returned"
    /\ \E i \in FinishedUnits : GateReturnedInvalidAt(i)
    /\ state.decision.metadata = [decision_type |-> "fallback",
                                  num_policies_evaluated |-> 0,
                                  tool_results_count |-> 1]

\* C5: a declared failure of a NON_TERMINAL tool is stored as a FAILURE result
\* under the tool's name and does not stop the run: it is never what run()
\* raises, every later tool is still invoked and its result stored unless the
\* run is terminated or aborted by something else, and run() returns when
\* nothing else fails.
C5_NonTerminalFailureContinues ==
    \A i \in FinishedUnits :
        (DeclaredFailureAt(i) /\ tools[i].mode = NON_TERMINAL) =>
            /\ IsFailureResult(StoredUnder(i))
            /\ RaisedInLoop => Len(outcomes) > i
            /\ (Len(invoked) = i /\ InLoop) => (pc = "loop" /\ idx = i + 1)
            /\ (PastLoop /\ ~state.terminated) =>
                  /\ Len(invoked) = Len(tools)
                  /\ \A j \in (i + 1)..Len(tools) : has_tool_result(state, tools[j].name)
            /\ (Finished /\ EngineCannotFail
                    /\ \A j \in FinishedUnits : j # i => ReturnedUsableAt(j))
                  => pc = "returned"

C5_Witness ==
    /\ pc = "returned"
    /\ Len(tools) = 2 /\ Len(outcomes) = 2
    /\ DeclaredFailureAt(1) /\ tools[1].mode = NON_TERMINAL
    /\ IsFailureResult(StoredUnder(1))
    /\ outcomes[2].how = "returned"
    /\ has_tool_result(state, tools[2].name)

\* C6: a declared failure of a TERMINAL tool makes run() raise that
\* ToolExecutionError with the FAILURE result already stored, no later tool
\* invoked and the engine never invoked.
C6_TerminalFailureAborts ==
    \A i \in FinishedUnits :
        (DeclaredFailureAt(i) /\ tools[i].mode = TERMINAL) =>
            /\ pc = "raised"
            /\ exc = Raised("ToolExecutionError")
            /\ IsFailureResult(StoredUnder(i))
            /\ Len(invoked) = i
            /\ engineCalls = 0
            /\ ~state.decision_set

C6_Witness ==
    /\ pc = "raised"
    /\ \E i \in FinishedUnits :
          DeclaredFailureAt(i) /\ tools[i].mode = TERMINAL /\ i < Len(tools)

\* C7: an unexpected error of a tool is always re-raised, whatever the tool's
\* failure mode, after a FAILURE result has been stored for it; no later tool
\* is invoked and no decision is set.
C7_UnexpectedErrorAlwaysRaises ==
    \A i \in FinishedUnits :
        UnexpectedErrorAt(i) =>
            /\ pc = "raised"
            /\ exc = Raised(outcomes[i].error)
            /\ IsFailureResult(StoredUnder(i))
            /\ Len(invoked) = i
            /\ engineCalls = 0
            /\ state.decision = None /\ ~state.decision_set

C7_Witness ==
    /\ pc = "raised"
    /\ \E i \in FinishedUnits :
          /\ UnexpectedErrorAt(i) /\ outcomes[i].error = "RuntimeError"
          /\ tools[i].mode = NON_TERMINAL /\ i < Len(tools)

\* C8: a tool raising the ToolExecutionError of tools/base_tool.py is handled
\* as a declared failure: FAILURE recorded and, for a NON_TERMINAL tool, the
\* run goes on to the next tool instead of raising.
C8_BaseToolErrorIsDeclared ==
    \A i \in FinishedUnits :
        (/\ outcomes[i].how = "raised"
         /\ outcomes[i].error = "tools.base_tool.ToolExecutionError"
         /\ tools[i].mode = NON_TERMINAL) =>
            /\ IsFailureResult(StoredUnder(i))
            /\ RaisedInLoop => Len(outcomes) > i

C10_NullDecisionRaisesValidationError ==
    (/\ engineCalls = 1
     /\ ~engineResult.raises
     /\ _validate_decision(engineResult.value) # "ok") =>
        /\ pc = "raised"
        /\ exc.type = "StateValidationError"
        /\ state.decision = None /\ ~state.decision_set

----------------------------------------------------------------------------
(* C11 .. C20 *)

\* C11: when policy_engine.evaluate raises PolicyEvaluationError, run() raises
\* that error unchanged; when it raises anything else, run() raises a
\* PolicyEvaluationError whose cause is that error; either way run() does not
\* return, and no decision (default or otherwise) is stored.
C11_EngineErrorPropagates ==
    (engineCalls = 1 /\ engineResult.raises) =>
        /\ pc = "raised"
        /\ engineResult.exc = "PolicyEvaluationError" =>
              exc = Raised("PolicyEvaluationError")
        /\ engineResult.exc # "PolicyEvaluationError" =>
              exc = RaisedFrom("PolicyEvaluationError", engineResult.exc)
        /\ decisionLocal = None
        /\ state.decision = None /\ ~state.decision_set

C11_Witness ==
    /\ pc = "raised"
    /\ engineCalls = 1 /\ engineResult.raises
    /\ engineResult.exc = "RuntimeError"
    /\ exc = RaisedFrom("PolicyEvaluationError", "RuntimeError")

\* What policy j of the configured PolicyEngine does on the record of the run.
PolicyResult(j) == Policy_evaluate(engine.policies[j], j, state)

Decides(j) == ~PolicyResult(j).raises /\ PolicyResult(j).value # None

Defers(j) == ~PolicyResult(j).raises /\ PolicyResult(j).value = None

\* evaluate of the configured PolicyEngine was called on a record it accepts.
EvaluatedValidRecord ==
    /\ engineCalls = 1
    /\ engine.kind = "PolicyEngine"
    /\ _validate_state(state) = "ok"

IsFallback(d) ==
    /\ d.kind = "Decision"
    /\ "decision_type" \in DOMAIN d.metadata
    /\ d.metadata.decision_type = "fallback"

\* C12: evaluate is first-match-wins: when policy j returns a Decision and
\* every policy before it deferred, evaluate returns exactly that Decision
\* and has consulted j policies, whatever the policies after j would do.
C12_FirstMatchWins ==
    EvaluatedValidRecord =>
        \A j \in 1..Len(engine.policies) :
            (Decides(j) /\ \A k \in 1..(j - 1) : Defers(k)) =>
                /\ ~engineResult.raises
                /\ engineResult.value = PolicyResult(j).value
                /\ engineResult.consulted = j

C12_Witness ==
    /\ pc = "returned"
    /\ EvaluatedValidRecord
    /\ engine.policies = <<"discard_invalid", "pass">>
    /\ Decides(1) /\ Decides(2)
    /\ state.decision = PolicyResult(1).value
    /\ state.decision # PolicyResult(2).value
    /\ engineResult.consulted = 1

\* C13: when every configured policy defers (the empty list included),
\* evaluate returns a fallback Decision whose category is the configured
\* default action, whose rationale is non-empty and whose metadata records
\* the number of policies tried and the number of results in the record.
C13_FallbackWhenAllDefer ==
    (EvaluatedValidRecord /\ \A j \in 1..Len(engine.policies) : Defers(j)) =>
        /\ ~engineResult.raises
        /\ IsFallback(engineResult.value)
        /\ engineResult.value.decision_type = engine.default_action
        /\ engineResult.value.rationale # ""
        /\ engineResult.value.metadata.num_policies_evaluated = Len(engine.policies)
        /\ engineResult.value.metadata.tool_results_count = Cardinality(ResultNames(state))
        /\ engineResult.consulted = Len(engine.policies)

C13_Witness ==
    /\ pc = "returned"
    /\ EvaluatedValidRecord
    /\ engine.policies = <<"defer", "discard_invalid">>
    /\ engine.default_action = DefaultAction
    /\ state.decision.decision_type = FLAG
    /\ state.decision.metadata = [decision_type |-> "fallback",
                                  num_policies_evaluated |-> 2,
                                  tool_results_count |-> 2]

\* C14: when a policy raises during evaluate (every policy before it having
\* deferred), that error leaves evaluate, no Decision is returned and no
\* later policy is consulted; a fallback Decision comes out of evaluate only
\* when every policy deferred.
C14_RuleErrorPropagates ==
    EvaluatedValidRecord =>
        /\ \A j \in 1..Len(engine.policies) :
              (PolicyResult(j).raises /\ \A k \in 1..(j - 1) : Defers(k)) =>
                  /\ engineResult.raises
                  /\ engineResult.exc = PolicyResult(j).exc
                  /\ engineResult.consulted = j
        /\ (~engineResult.raises /\ IsFallback(engineResult.value)) =>
              \A j \in 1..Len(engine.policies) : Defers(j)

C14_Witness ==
    /\ pc = "raised"
    /\ EvaluatedValidRecord
    /\ engine.policies = <<"defer", "raise">>
    /\ engineResult = Throws("RuntimeError", 2)

\* C15: once run() has finished its tool loop (exhaustion, early termination
\* or no tools at all) and moved on to the engine, the record's
\* tools_complete flag is true; in particular it is true in every record
\* run() returns.
C15_ToolsCompleteAfterLoop ==
    pc \in {"deciding", "store", "returned"} => is_tools_complete(state)

\* The phase of the run, read off the position of run().
Phase ==
    CASE pc \in {"new", "ctor_raised", "ready"} -> "NO_RUN"
      [] pc = "initialized" -> "INITIALIZED"
      [] pc \in {"loop", "in_tool"} -> "EXECUTING_UNITS"
      [] pc = "post_loop" ->
            IF state.terminated THEN "TERMINATED_EARLY" ELSE "UNITS_EXHAUSTED"
      [] pc \in {"deciding", "store"} -> "DECIDING"
      [] pc \in {"returned", "mutated"} -> "FINALIZED"
      [] pc = "raised" -> "ABORTED"

PhaseEdges ==
    {<<"NO_RUN", "INITIALIZED">>,
     <<"INITIALIZED", "EXECUTING_UNITS">>,
     <<"EXECUTING_UNITS", "TERMINATED_EARLY">>,
     <<"EXECUTING_UNITS", "UNITS_EXHAUSTED">>,
     <<"TERMINATED_EARLY", "DECIDING">>,
     <<"UNITS_EXHAUSTED", "DECIDING">>,
     <<"DECIDING", "FINALIZED">>,
     <<"EXECUTING_UNITS", "ABORTED">>,
     <<"DECIDING", "ABORTED">>}

\* Some finished invocation ended in a way that makes run() raise.
FatalOutcome ==
    \E i \in FinishedUnits :
        \/ UnexpectedErrorAt(i)
        \/ NullResultAt(i)
        \/ DeclaredFailureAt(i) /\ tools[i].mode = TERMINAL

\* C16: every step of a run stays in its phase or follows an edge of
\* INITIALIZED -> EXECUTING_UNITS -> (TERMINATED_EARLY | UNITS_EXHAUSTED) ->
\* DECIDING -> FINALIZED, or goes from EXECUTING_UNITS or DECIDING to ABORTED;
\* nothing happens after FINALIZED or ABORTED (so an aborted run never
\* returns a record); the engine is invoked at most once, in DECIDING, and
\* only when no invocation of the loop was fatal.
C16_PhaseOrder ==
    [][/\ Phase \notin {"FINALIZED", "ABORTED"}
       /\ Phase' = Phase \/ <<Phase, Phase'>> \in PhaseEdges
       /\ pc' = "returned" => (Phase = "DECIDING" /\ exc = NoExc)
       /\ engineCalls' # engineCalls =>
             /\ engineCalls = 0 /\ engineCalls' = 1
             /\ Phase = "DECIDING"
             /\ exc = NoExc /\ ~FatalOutcome]_vars

C16_Witness ==
    /\ pc = "returned"
    /\ Phase = "FINALIZED"
    /\ state.terminated
    /\ Len(invoked) = 1 /\ Len(tools) = 2
    /\ engineCalls = 1

\* C17: once the record's terminated flag is true, set by the validity hook or
\* by a tool calling terminate() on the record, no further tool is invoked,
\* and no operation on the record (by run() or by the caller afterwards)
\* makes the flag false again.
C17_TerminatedStopsInvocations ==
    [][(HasRecord /\ state.terminated) =>
          (state'.terminated /\ invoked' = invoked)]_vars

C17_Witness ==
    /\ pc = "returned"
    /\ state.terminated
    /\ Len(tools) = 2 /\ Len(invoked) = 1
    /\ tools[1].name # GateName
    /\ "Early termination: tool request" \in Messages

\* Two positions of the configured list carry the same name.
SharedName(n) ==
    \E i, j \in 1..Len(tools) : i # j /\ tools[i].name = n /\ tools[j].name = n

\* C18: constructing a TriageAgent from a list in which two tools share a
\* name raises a ValueError that names exactly the shared names;
\* construction from a list of pairwise-distinct names does not raise.
C18_DuplicateNamesRejected ==
    pc # "new" =>
        IF \E n \in ToolNames : SharedName(n)
        THEN /\ pc = "ctor_raised"
             /\ exc.type = "ValueError"
             /\ exc.names = {n \in ToolNames : SharedName(n)}
        ELSE pc # "ctor_raised"

C18_Witness ==
    /\ pc = "ctor_raised"
    /\ Len(tools) = 2
    /\ tools[1].name = "A" /\ tools[2].name = "A"
    /\ tools[1].mode # tools[2].mode
    /\ exc.names = {"A"}

C20_ReturnedRecordImmutable ==
    [][pc = "returned" => state' = state]_vars

----------------------------------------------------------------------------
(* C21 .. C30 *)

IsPrefix(a, b) == Len(a) <= Len(b) /\ SubSeq(b, 1, Len(a)) = a

\* C21: messages is append-only: over every step of run(), of a tool calling
\* terminate() and of a mutator called on the returned record, the messages
\* before the step are a prefix of the messages after it.
C21_MessagesAppendOnly ==
    [][HasRecord => IsPrefix(state.messages, state'.messages)]_vars

C21_Witness ==
    /\ pc = "mutated"
    /\ state.messages = <<"Molecule failed validity check",
                          "Early termination: Invalid chemistry",
                          "All tools completed",
                          "Early termination: late">>

\* The record handed to evaluate is None, has no or a None identifier, or
\* has no results mapping.
Malformed(s) ==
    \/ s = None
    \/ "molecule_id" \notin DOMAIN s
    \/ s.molecule_id = None
    \/ "tool_results" \notin DOMAIN s

Evaluated == engineResult # NoCall

\* C22: evaluate of a None record, of a record whose identifier is None and
\* of a record without results mapping raises a ValueError, and no policy
\* has been consulted by then.
C22_MalformedRecordRejected ==
    (Evaluated /\ Malformed(state)) =>
        /\ engineResult.raises
        /\ engineResult.exc = "ValueError"
        /\ engineResult.consulted = 0

C22_Witness ==
    /\ Evaluated
    /\ state # None /\ state.molecule_id = None
    /\ engine.policies = <<"pass", "raise">>
    /\ engineResult = Throws("ValueError", 0)

\* C23: after clear_policies() and until the next add_policy(), the policy
\* list is empty and every evaluate of a well-formed record returns the
\* fallback Decision with the configured default category, no policy
\* having been consulted.
C23_ClearedEngineFallsBack ==
    cleared =>
        /\ engine.policies = <<>>
        /\ (Evaluated /\ ~Malformed(state)) =>
              /\ ~engineResult.raises
              /\ IsFallback(engineResult.value)
              /\ engineResult.value.decision_type = engine.default_action
              /\ engineResult.consulted = 0

C23_Witness ==
    /\ cleared
    /\ Evaluated /\ ~engineResult.raises
    /\ engineResult.value.decision_type = DISCARD
    /\ engineResult.value.metadata.num_policies_evaluated = 0
    /\ engineResult.value.metadata.tool_results_count = 2

C25_EvaluateLeavesRecord ==
    [][(engineResult' # NoCall /\ engineResult' # engineResult) => state' = state]_vars

C25_Witness ==
    /\ Evaluated /\ ~engineResult.raises
    /\ ~IsFallback(engineResult.value)
    /\ state.decision = None /\ ~state.decision_set
    /\ ResultNames(state) = {GateName, "A"}

\* The content of the record of run r.
View(r) == Load(heap, runs[r].state)

\* The same after the step.
ViewAfter(r) == Load(heap', runs'[r].state)

\* C26: every run() call starts from a fresh record (no results, no
\* messages, no decision, all flags false), and a step of one run leaves the
\* content of every other run's record as it was, for any interleaving of
\* the runs on one agent.
C26_RunsShareNothing ==
    [][/\ Len(runs') > Len(runs) =>
             ViewAfter(Len(runs')) = AgentState(runs'[Len(runs')].state.molecule_id)
       /\ \A r \in 1..Len(runs) : runs'[r] = runs[r] => ViewAfter(r) = View(r)]_vars

C26_Witness ==
    /\ Len(runs) = 2
    /\ runs[1].pc = "returned" /\ runs[2].pc = "returned"
    /\ View(1).terminated /\ ~View(2).terminated
    /\ View(1).decision.decision_type = DISCARD
    /\ View(2).decision.decision_type = FLAG
    /\ ResultNames(View(1)) = {GateName}
    /\ ResultNames(View(2)) = {GateName, "A"}

\* The rationale is empty or consists of blanks only.
Blank(r) == \A i \in 1..Len(r) : r[i] = " "

\* C27: constructing a Decision with an empty or whitespace-only rationale
\* fails; with a DecisionType member, a non-blank rationale and a metadata
\* dict it succeeds, the metadata then has a timestamp, a caller-supplied
\* timestamp is kept as it is, and every other entry is kept.
C27_DecisionConstruction ==
    call.op = "constructed" =>
        /\ Blank(call.args.rationale) => call.result.raises
        /\ (~Blank(call.args.rationale) /\ call.args.decision_type.kind = "DecisionType") =>
              /\ ~call.result.raises
              /\ call.result.value.rationale = call.args.rationale
              /\ "timestamp" \in DOMAIN call.result.value.metadata
              /\ \A k \in DOMAIN call.args.metadata :
                    call.result.value.metadata[k] = call.args.metadata[k]
              /\ "timestamp" \notin DOMAIN call.args.metadata =>
                    call.result.value.metadata.timestamp = call.now

C27_Witness ==
    /\ call.op = "constructed"
    /\ call.args.rationale = <<" ", "x">>
    /\ call.args.metadata = [confidence |-> "high"]
    /\ ~call.result.raises
    /\ call.result.value.metadata = [confidence |-> "high", timestamp |-> "t2"]

\* C28: for every Decision d that construction produced,
\* Decision.from_dict(d.to_dict()) succeeds and gives a Decision with the
\* category, rationale and metadata of d, the timestamp being the original
\* one whatever the clock reads at the time of from_dict.
C28_DecisionRoundTrip ==
    call.op = "round_trip" =>
        /\ ~call.result.raises
        /\ call.result.value.decision_type = call.d.decision_type
        /\ call.result.value.rationale = call.d.rationale
        /\ call.result.value.metadata = call.d.metadata

C28_Witness ==
    /\ call.op = "round_trip"
    /\ call.now = "t2"
    /\ call.d.metadata = [timestamp |-> "t1"]
    /\ call.d.decision_type = DISCARD
    /\ ~call.result.raises
    /\ call.result.value = call.d

\* C29: AgentState.to_dict() projects the current record: the three flag
\* entries, the results and the messages equal the record's, and the
\* decision entry is Decision.to_dict() of the stored Decision, or None when
\* no decision is stored.
C29_ToDictProjection ==
    HasRecord =>
        /\ AgentState_to_dict(state).tools_complete = state.tools_complete
        /\ AgentState_to_dict(state).terminated = state.terminated
        /\ AgentState_to_dict(state).decision_set = state.decision_set
        /\ AgentState_to_dict(state).tool_results = state.tool_results
        /\ AgentState_to_dict(state).messages = state.messages
        /\ AgentState_to_dict(state).decision =
              IF state.decision = None THEN None ELSE Decision_to_dict(state.decision)

\* The step changes the record's decision or its decision_set flag.
StoresDecision ==
    \/ state'.decision # state.decision
    \/ state'.decision_set # state.decision_set

\* C30: within one run() the decision is stored only by the step that
\* returns, only once, only after the single evaluate call returned a value
\* that passed validation, and the stored value is that value; a run that
\* returns has stored it in its last step and a run that raises never has.
C30_DecisionStoredOnce ==
    [][(HasRecord /\ state' # NoRecord) =>
          /\ StoresDecision =>
                /\ pc = "store" /\ pc' = "returned"
                /\ ~state.decision_set /\ state.decision = None
                /\ engineCalls = 1
                /\ engineResult # NoCall
                /\ ~engineResult.raises
                /\ _validate_decision(engineResult.value) = "ok"
                /\ state'.decision = engineResult.value
                /\ state'.decision_set
          /\ (pc' = "returned" /\ pc # "returned") => StoresDecision
          /\ pc' = "raised" => (~state'.decision_set /\ state'.decision = None)]_vars

C30_Witness ==
    /\ pc = "returned"
    /\ engineCalls = 1
    /\ state.decision_set
    /\ state.decision = engineResult.value
    /\ state.decision.decision_type = DISCARD
    /\ Len(state.messages) > 0

----------------------------------------------------------------------------
(* C31 .. C39 *)

\* C31: whatever operations have been applied to the record (add_tool_result,
\* add_message, terminate, set_tools_complete, set_decision with any
\* argument), decision_set is true exactly when decision is not None.
C31_DecisionSetIffPresent ==
    HasRecord => (state.decision_set <=> state.decision # None)

\* C32: in a record that run() returned, every finished unit either returned
\* a non-null result, which is stored as it was returned, or raised a declared
\* failure with NON_TERMINAL failure mode, for which a FAILURE result is
\* stored; so no returned run has a TERMINAL declared failure, an unexpected
\* unit error or a null result behind it, and an orchestrator-made FAILURE
\* result stands only for a declared NON_TERMINAL failure.
C32_OnlyNonTerminalFailuresSurvive ==
    pc = "returned" =>
        \A i \in FinishedUnits :
            \/ /\ outcomes[i].how = "returned"
               /\ ~NullResultAt(i)
               /\ StoredUnder(i) = outcomes[i].value
               /\ ~IsFailureResult(StoredUnder(i))
            \/ /\ DeclaredFailureAt(i)
               /\ tools[i].mode = NON_TERMINAL
               /\ StoredUnder(i) = ErrorResult(tools[i].name, "ToolExecutionError")
               /\ IsFailureResult(StoredUnder(i))

C32_Witness ==
    /\ pc = "returned"
    /\ Len(outcomes) = 2
    /\ outcomes[1].how = "returned"
    /\ DeclaredFailureAt(2)
    /\ IsFailureResult(StoredUnder(2))
    /\ ~IsFailureResult(StoredUnder(1))

\* Number of completion messages in the record.
CompletionMessages ==
    Cardinality({m \in 1..Len(state.messages) : state.messages[m] = "All tools completed"})

\* The completion step has been taken: run() is at or past the engine call.
ReachedEngine == pc \in {"deciding", "store", "returned"} \/ engineCalls > 0

\* C33: a run that reaches the engine has exactly one completion message,
\* appended after the loop ended (by exhaustion or by early termination) and
\* before evaluate is called, so that it is the last message and follows the
\* validity gate's termination messages; until then, and on a run that raised
\* in the tool phase, there is none.
C33_OneCompletionMessage ==
    HasRecord =>
        /\ ReachedEngine =>
              /\ CompletionMessages = 1
              /\ state.messages[Len(state.messages)] = "All tools completed"
        /\ ~ReachedEngine => CompletionMessages = 0

C33_Witness ==
    /\ pc = "returned"
    /\ state.terminated
    /\ state.messages = <<"Molecule failed validity check",
                          "Early termination: Invalid chemistry",
                          "All tools completed">>

\* The result says the subject is valid.
ReportsValid(r) ==
    \/ r.kind = "dict" /\ r.is_valid = "true"
    \/ r.kind = "ToolResult" /\ r.data.kind = "dict" /\ r.data.is_valid = "true"

\* The i-th invocation was the validity gate returning a result that says valid.
GateReturnedValidAt(i) ==
    /\ tools[i].name = GateName
    /\ outcomes[i].how = "returned"
    /\ ReportsValid(outcomes[i].value)

\* The step is the validity gate returning a result that says valid.
GateReturnsValid ==
    /\ pc = "in_tool"
    /\ tools[idx].name = GateName
    /\ Len(outcomes') = Len(outcomes) + 1
    /\ outcomes'[Len(outcomes')].how = "returned"
    /\ ReportsValid(outcomes'[Len(outcomes')].value)

\* C34: when the validity gate returns a result that says valid, that step
\* leaves the terminated flag and the messages as they were, stores the
\* result under the gate's name and goes on to the next position of the
\* list; from then on no termination message of the hook is in the record,
\* the stored result stays, and the unit after the gate is invoked by the
\* next step taken unless the gate itself called terminate() on the record.
C34_ValidGateContinues ==
    [][/\ GateReturnsValid =>
             /\ state'.terminated = state.terminated
             /\ state'.messages = state.messages
             /\ state'.tool_results[GateName] = outcomes'[Len(outcomes')].value
             /\ pc' = "loop" /\ idx' = idx + 1
       /\ \A i \in 1..Len(outcomes) :
             GateReturnedValidAt(i) =>
                /\ state'.tool_results[GateName] = outcomes[i].value
                /\ "Molecule failed validity check" \notin Messages'
                /\ "Early termination: Invalid chemistry" \notin Messages'
                /\ (Len(invoked) = i /\ i < Len(tools) /\ ~state.terminated) =>
                      (Len(invoked') = i + 1 /\ invoked'[i + 1] = tools[i + 1].name)]_vars

C34_Witness ==
    /\ pc = "returned"
    /\ ~state.terminated
    /\ Len(tools) = 2 /\ Len(invoked) = 2
    /\ GateReturnedValidAt(1)
    /\ state.tool_results[GateName] = DictResult("true")
    /\ outcomes[2].how = "returned"

\* Policy k of engine e defers on record s.
DefersOn(e, k, s) ==
    /\ ~Policy_evaluate(e.policies[k], k, s).raises
    /\ Policy_evaluate(e.policies[k], k, s).value = None

\* The result r of an evaluate call is a Decision made by a rule.
DecidedByRule(r) == r # NoCall /\ ~r.raises /\ ~IsFallback(r.value)

\* C35: add_policy puts the new rule at the end of the list and leaves the
\* rules before it in place; evaluate goes through the list in that order,
\* so the rule that decides, an added one included, is one before which
\* every rule of the list deferred, and its Decision is what is returned.
C35_AddPolicyAppends ==
    [][/\ Len(engine'.policies) > Len(engine.policies) =>
             /\ Len(engine'.policies) = Len(engine.policies) + 1
             /\ SubSeq(engine'.policies, 1, Len(engine.policies)) = engine.policies
       /\ DecidedByRule(engineResult') =>
             /\ engineResult'.consulted \in 1..Len(engine'.policies)
             /\ engineResult'.value.metadata.policy = engineResult'.consulted
             /\ engineResult'.value.decision_type =
                   Policy_evaluate(engine'.policies[engineResult'.consulted],
                                   engineResult'.consulted, state').value.decision_type
             /\ \A k \in 1..(engineResult'.consulted - 1) :
                   DefersOn(engine', k, state')]_vars

C35_Witness ==
    /\ engine.policies = <<"discard_invalid", "pass">>
    /\ DecidedByRule(engineResult)
    /\ engineResult.consulted = 2
    /\ engineResult.value.decision_type = PASS
    /\ DefersOn(engine, 1, state)

\* C36: at every point of a run, and in the record an aborted run leaves
\* behind, the names in tool_results are exactly the names of the units whose
\* invocation has finished (returned or raised); these are the first units of
\* the configured list, one result each, never more than the list has units.
C36_ResultsAreFinishedPrefix ==
    HasRecord =>
        /\ Len(outcomes) <= Len(tools)
        /\ Len(outcomes) <= Len(invoked)
        /\ \A i \in FinishedUnits : invoked[i] = tools[i].name
        /\ ResultNames(state) = {tools[i].name : i \in FinishedUnits}
        /\ Cardinality(ResultNames(state)) = Len(outcomes)
        /\ Cardinality(ResultNames(state)) <= Len(tools)

C36_Witness ==
    /\ RaisedInLoop
    /\ Len(tools) = 2
    /\ Len(outcomes) = 2
    /\ NullResultAt(2)
    /\ ResultNames(state) = {tools[1].name, tools[2].name}

\* The i-th invocation was the validity gate, with NON_TERMINAL failure mode,
\* raising a declared failure.
GateFailedNonTerminalAt(i) ==
    /\ tools[i].name = GateName
    /\ tools[i].mode = NON_TERMINAL
    /\ DeclaredFailureAt(i)

\* The step is such a gate raising its declared failure.
GateRaisesNonTerminal ==
    /\ pc = "in_tool"
    /\ tools[idx].name = GateName
    /\ tools[idx].mode = NON_TERMINAL
    /\ Len(outcomes') = Len(outcomes) + 1
    /\ outcomes'[Len(outcomes')].how = "raised"
    /\ outcomes'[Len(outcomes')].error = "ToolExecutionError"

\* C37: the early-termination hook does not run when the validity gate
\* raises: if the gate has NON_TERMINAL failure mode and raises a declared
\* failure, that step leaves the terminated flag and the messages as they
\* were, records the failure under the gate's name and goes on to the next
\* position; no termination message of the hook appears later, and the unit
\* after the gate is invoked by the next step taken unless the gate itself
\* called terminate() on the record.
C37_FailedGateDoesNotTerminate ==
    [][/\ GateRaisesNonTerminal =>
             /\ state'.terminated = state.terminated
             /\ state'.messages = state.messages
             /\ IsFailureResult(state'.tool_results[GateName])
             /\ pc' = "loop" /\ idx' = idx + 1
       /\ \A i \in 1..Len(outcomes) :
             GateFailedNonTerminalAt(i) =>
                /\ Messages' \cap TerminationMessages = {}
                /\ (Len(invoked) = i /\ i < Len(tools) /\ ~state.terminated) =>
                      (Len(invoked') = i + 1 /\ invoked'[i + 1] = tools[i + 1].name)]_vars

C37_Witness ==
    /\ pc = "returned"
    /\ ~state.terminated
    /\ Len(tools) = 2 /\ Len(invoked) = 2
    /\ GateFailedNonTerminalAt(1)
    /\ IsFailureResult(state.tool_results[GateName])
    /\ outcomes[2].how = "returned"
    /\ state.messages = <<"All tools completed">>

\* The result is a mapping (or carries one) that has no is_valid entry.
LacksVerdict(r) ==
    \/ r.kind = "dict" /\ r.is_valid = "missing"
    \/ r.kind = "ToolResult" /\ r.data.kind = "dict" /\ r.data.is_valid = "missing"

\* The i-th invocation was the validity gate returning such a result.
GateReturnedNoVerdictAt(i) ==
    /\ tools[i].name = GateName
    /\ outcomes[i].how = "returned"
    /\ LacksVerdict(outcomes[i].value)

\* C38: when the validity gate returns a mapping without an is_valid entry,
\* the subject is treated as invalid: the record is terminated, both
\* termination messages are in it, the gate was the last unit invoked, and
\* the run goes on to the engine instead of raising in the tool phase.
C38_MissingVerdictIsInvalid ==
    \A i \in FinishedUnits :
        GateReturnedNoVerdictAt(i) =>
            /\ state.terminated
            /\ TerminationMessages \subseteq Messages
            /\ Len(invoked) = i
            /\ Len(outcomes) = i
            /\ StoredUnder(i) = outcomes[i].value
            /\ ~RaisedInLoop

C38_Witness ==
    /\ pc = "returned"
    /\ Len(tools) = 2
    /\ GateReturnedNoVerdictAt(1)
    /\ outcomes[1].value = DictResult("missing")
    /\ invoked = <<GateName>>
    /\ state.terminated

\* The run has ended within its limits: every invocation made was of the
\* unit at that position of the list, evaluate was called at most once, and
\* the engine consulted no more rules than it has.
EndedWithinLimits ==
    /\ Finished
    /\ Len(invoked) <= Len(tools)
    /\ \A i \in 1..Len(invoked) : invoked[i] = tools[i].name
    /\ Len(outcomes) = Len(invoked)
    /\ engineCalls <= 1
    /\ (engineCalls = 1 /\ engine.kind = "PolicyEngine") =>
          engineResult.consulted <= Len(engine.policies)

\* C39: every run() that has started eventually ends, by returning the record
\* or by raising, having invoked each configured unit at most once and
\* consulted each rule at most once, given that every unit and every rule
\* that is called returns or raises.
C39_RunEnds == HasRecord ~> EndedWithinLimits

C39_Witness ==
    /\ pc = "returned"
    /\ Len(tools) = 2 /\ Len(invoked) = 2
    /\ engine.kind = "PolicyEngine"
    /\ engine.policies = <<"defer", "discard_invalid">>
    /\ engineResult.consulted = 2
    /\ IsFallback(state.decision)

====
